---- MODULE Spec2Model ----
(***************************************************************************)
(* Scene detection and chapter selection of CMGen (package detector).      *)
(*                                                                         *)
(* Units.  The code works on float64 seconds and float64 scores.  Here a   *)
(* timestamp is an integer number of tenths of a second (45.2 s = 452) and *)
(* a score an integer number of hundredths (0.9 = 90).  Every input drawn  *)
(* below is a multiple of these units and the durations are chosen so that *)
(* duration / chapterCount and the jitter are whole numbers of units, so   *)
(* the arithmetic of the code is exact in the model.  Scene.Frame is never *)
(* written by the code (always 0) and is left out of the record.           *)
(***************************************************************************)
EXTENDS Integers, Sequences, FiniteSets

VARIABLES pc, sd, ffmpegFound, probeOk, duration, visualScenes, audioScenes,
          audioErr, allScenes, scenes, outcome, zeroSynth, fallbackUsed,
          filterSelected, ceilingSelected,
          scan,   \* combineScenes' loop: [all, i, last]
          yt,     \* UpdateVideoChapters: the video's description and the call
          tools,  \* detectVisualScenes: what its two tool runs gave
          web     \* web mode: the shared chapters and the requests in flight

vars == <<pc, sd, ffmpegFound, probeOk, duration, visualScenes, audioScenes,
          audioErr, allScenes, scenes, outcome, zeroSynth, fallbackUsed,
          filterSelected, ceilingSelected, scan, yt, tools, web>>

(* ------------------------------ bounds --------------------------------- *)

\* longest raw event list the frame-difference filter prints in a run
MaxVisual == 2
\* longest raw event list one silence pass prints in a run
MaxSilence == 1
\* --max-scenes ranges over 0..MaxScenesBound
MaxScenesBound == 3

(* ------------------------- units and constants ------------------------- *)

\* one second, in timestamp units
Second == 10
\* score 1.0, in score units
ScoreOne == 100

Scene(t, s) == [ts |-> t, score |-> s]

Min(a, b) == IF a < b THEN a ELSE b
Abs(a) == IF a < 0 THEN 0 - a ELSE a

(* ------------------------------ sorting -------------------------------- *)
(* sort.Slice(x, less-by-Timestamp).  For slices of at most 12 elements    *)
(* the Go runtime sorts by insertion, which keeps equal timestamps in      *)
(* input order; the model sorts that way at every length.                  *)

RECURSIVE InsertByTimestamp(_, _)
InsertByTimestamp(s, x) ==
    IF s = << >> THEN <<x>>
    ELSE IF s[Len(s)].ts <= x.ts THEN Append(s, x)
    ELSE Append(InsertByTimestamp(SubSeq(s, 1, Len(s) - 1), x), s[Len(s)])

RECURSIVE SortFrom(_, _, _)
SortFrom(s, i, acc) ==
    IF i > Len(s) THEN acc ELSE SortFrom(s, i + 1, InsertByTimestamp(acc, s[i]))

SortByTimestamp(s) == SortFrom(s, 1, << >>)

(* --------------------------- combineScenes ----------------------------- *)

\* var lastTimestamp float64 = -100
MergeSeed == 0 - 100 * Second

\* a scan whose close candidate also wins on an equal score
MergeStep_ReplacesOnEqual(st, scene, minGap) ==
    IF scene.ts - st.last >= minGap
    THEN [merged |-> Append(st.merged, scene), last |-> scene.ts]
    ELSE IF Len(st.merged) > 0 /\ scene.score >= st.merged[Len(st.merged)].score
    THEN [merged |-> [st.merged EXCEPT ![Len(st.merged)] = scene], last |-> scene.ts]
    ELSE st

\* the scan of the sorted concatenation; st = [merged, last]
MergeStep(st, scene, minGap) ==
    IF scene.ts - st.last >= minGap
    THEN [merged |-> Append(st.merged, scene), last |-> scene.ts]
    ELSE IF Len(st.merged) > 0 /\ scene.score > st.merged[Len(st.merged)].score
    THEN [merged |-> [st.merged EXCEPT ![Len(st.merged)] = scene], last |-> scene.ts]
    ELSE st

RECURSIVE MergeScan(_, _, _, _)
MergeScan(all, i, st, minGap) ==
    IF i > Len(all) THEN st.merged
    ELSE MergeScan(all, i + 1, MergeStep(st, all[i], minGap), minGap)

\* a merge that scans the visual list even when there is no audio
combineScenes_AlwaysScans(visual, audio, minGap) ==
    MergeScan(SortByTimestamp(visual \o audio), 1,
              [merged |-> << >>, last |-> MergeSeed], minGap)

combineScenes(visual, audio, minGap) ==
    IF Len(audio) = 0 THEN visual
    ELSE MergeScan(SortByTimestamp(visual \o audio), 1,
                   [merged |-> << >>, last |-> MergeSeed], minGap)

(* ---------------------- selectRepresentativeScenes --------------------- *)
(* The result is [ok, list]: ok = FALSE stands for the run-time panic of   *)
(* an index outside the segments slice.                                    *)

Returned(list) == [ok |-> TRUE, list |-> list]
Panicked == [ok |-> FALSE, list |-> << >>]

\* int(scene.Timestamp / segmentDuration), clamped to the last segment;
\* segmentDuration = duration / segmentCount, segments numbered from 0
SegmentOf(t, segmentCount, dur) ==
    Min((t * segmentCount) \div dur, segmentCount - 1)

\* scene.Score * (1 - normalizedDistance / 2), multiplied by the positive
\* factor 4 * duration that every candidate of one call shares:
\* |t - middle| / segmentDuration = |2nt - (2i+1)D| / (2D)
CombinedScore(scene, i, segmentCount, dur) ==
    scene.score * (4 * dur - Abs(2 * segmentCount * scene.ts - (2 * i + 1) * dur))

\* bestScore := -1.0, in the scale of CombinedScore
BestSeed(dur) == 0 - ScoreOne * 4 * dur

\* a loop in which a later candidate also wins on an equal combined score
RECURSIVE BestIndex_LastOnTie(_, _, _, _, _, _)
BestIndex_LastOnTie(segment, j, st, i, segmentCount, dur) ==
    IF j > Len(segment) THEN st.bestIndex
    ELSE LET c == CombinedScore(segment[j], i, segmentCount, dur)
         IN  BestIndex_LastOnTie(segment, j + 1,
                       IF c >= st.bestScore THEN [bestScore |-> c, bestIndex |-> j] ELSE st,
                       i, segmentCount, dur)

\* the loop over one segment: st = [bestScore, bestIndex]
RECURSIVE BestIndex(_, _, _, _, _, _)
BestIndex(segment, j, st, i, segmentCount, dur) ==
    IF j > Len(segment) THEN st.bestIndex
    ELSE LET c == CombinedScore(segment[j], i, segmentCount, dur)
         IN  BestIndex(segment, j + 1,
                       IF c > st.bestScore THEN [bestScore |-> c, bestIndex |-> j] ELSE st,
                       i, segmentCount, dur)

SegmentMembers(rest, i, segmentCount, dur) ==
    SelectSeq(rest, LAMBDA sc : SegmentOf(sc.ts, segmentCount, dur) = i)

\* what one segment contributes to result
SegmentPick(rest, i, segmentCount, dur) ==
    LET segment == SegmentMembers(rest, i, segmentCount, dur)
    IN  IF Len(segment) = 0 THEN << >>
        ELSE IF Len(segment) = 1 THEN <<segment[1]>>
        ELSE <<segment[BestIndex(segment, 1,
                                 [bestScore |-> BestSeed(dur), bestIndex |-> 1],
                                 i, segmentCount, dur)]>>

RECURSIVE PickSegments(_, _, _, _, _)
PickSegments(rest, i, segmentCount, dur, result) ==
    IF i >= segmentCount THEN result
    ELSE PickSegments(rest, i + 1, segmentCount, dur,
                      result \o SegmentPick(rest, i, segmentCount, dur))

\* a selector that never sets the first candidate aside
KeepsZero_Never(list) == FALSE

\* scenes[0].Timestamp < 1.0
KeepsZero(list) == list[1].ts < Second

selectRepresentativeScenes(list, desiredCount, dur) ==
    IF Len(list) <= desiredCount THEN Returned(list)
    ELSE LET keep == KeepsZero(list)
             rest == IF keep THEN Tail(list) ELSE list
             segmentCount == IF keep THEN desiredCount - 1 ELSE desiredCount
         IN  \* with segmentCount = 0 the slice is empty, segmentDuration is
             \* +Inf, every candidate maps to segment 0 >= segmentCount and is
             \* clamped to segments[-1]
             IF segmentCount <= 0 /\ Len(rest) > 0 THEN Panicked
             ELSE Returned(SortByTimestamp(
                      PickSegments(rest, 0, segmentCount, dur,
                                   IF keep THEN <<list[1]>> ELSE << >>)))

(* ------------------------- intelligentFiltering ------------------------ *)

\* an ideal count whose first bucket takes the 5-minute video as well
idealCount_FiveMinutesShort(dur) ==
    IF dur <= 300 * Second THEN 3
    ELSE IF dur < 900 * Second THEN 5
    ELSE IF dur < 1800 * Second THEN 8
    ELSE 10 + dur \div (1800 * Second)

\* idealCount, from the video length
idealCount(dur) ==
    IF dur < 300 * Second THEN 3
    ELSE IF dur < 900 * Second THEN 5
    ELSE IF dur < 1800 * Second THEN 8
    ELSE 10 + dur \div (1800 * Second)

intelligentFiltering(list, dur, minDuration) ==
    IF Len(list) = 0 THEN Returned(list)
    ELSE LET filteredScenes == SelectSeq(list, LAMBDA sc : sc.ts >= minDuration)
         IN  IF Len(filteredScenes) > idealCount(dur) * 2
             THEN selectRepresentativeScenes(filteredScenes, idealCount(dur), dur)
             ELSE Returned(filteredScenes)

(* ------------------------ createFallbackChapters ----------------------- *)

\* a chapter count that adds one chapter per hour past 30 minutes
chapterCount_PerHour(dur) ==
    IF dur < 300 * Second THEN 3
    ELSE IF dur < 900 * Second THEN 5
    ELSE IF dur < 1800 * Second THEN 8
    ELSE 10 + dur \div (3600 * Second)

chapterCount(dur) ==
    IF dur < 300 * Second THEN 3
    ELSE IF dur < 900 * Second THEN 5
    ELSE IF dur < 1800 * Second THEN 8
    ELSE 10 + dur \div (1800 * Second)

\* rand.Float64() in [0, 1), in tenths: the least draw, the middle, and a
\* draw just under 1
JitterDraws == {0, 5, 9}

\* a fallback whose jitter misses the factor 0.1
FallbackTimestamp_WideJitter(i, dur, draw) ==
    LET chapterDuration == dur \div chapterCount(dur)
        jitter == (chapterDuration * (draw - 5)) \div 10
        t1 == i * chapterDuration + jitter
        t2 == IF t1 <= 0 THEN i * chapterDuration ELSE t1
    IN  IF t2 >= dur THEN dur - 10 * Second ELSE t2

\* chapter i (from 0) of the fallback, draw = 10 * rand.Float64()
FallbackTimestamp(i, dur, draw) ==
    LET chapterDuration == dur \div chapterCount(dur)
        \* chapterDuration * 0.1 * (rand.Float64() - 0.5)
        jitter == (chapterDuration * (draw - 5)) \div 100
        t1 == i * chapterDuration + jitter
        t2 == IF t1 <= 0 THEN i * chapterDuration ELSE t1
    IN  IF t2 >= dur THEN dur - 10 * Second ELSE t2

\* draws[i] is the draw of chapter i, 1 <= i < chapterCount
createFallbackChapters(dur, draws) ==
    [k \in 1 .. chapterCount(dur) |->
        IF k = 1 THEN Scene(0, ScoreOne)
        ELSE Scene(FallbackTimestamp(k - 1, dur, draws[k - 1]), 50)]

FallbackDraws(dur) == [1 .. chapterCount(dur) - 1 -> JitterDraws]

(* ------------------------------ detectors ------------------------------ *)
(* A tool run is [ok, out]: it fails (the error return) or prints a list   *)
(* of raw events in presentation order (strictly ascending timestamps).    *)

ToolFailed == [ok |-> FALSE, out |-> << >>]
ToolPrinted(lines) == [ok |-> TRUE, out |-> lines]

\* detectScenesByThreshold: raw = events [ts, score] printed by the filter
detectScenesByThreshold(raw, dur) ==
    SelectSeq(raw, LAMBDA e : e.ts > 0 /\ e.ts < dur - 5 * Second)

\* detectScenesByInterval: raw = timestamps printed by the interval select
detectScenesByInterval(raw, dur) ==
    LET kept == SelectSeq(raw, LAMBDA t : t > 30 * Second /\ t < dur - 30 * Second)
    IN  [k \in 1 .. Len(kept) |-> Scene(kept[k], 50)]

\* the guard under which detectVisualScenes runs the interval tool
RunsInterval(primary, dur) ==
    LET first == IF primary.ok THEN detectScenesByThreshold(primary.out, dur) ELSE << >>
    IN  Len(first) < 5 /\ dur > 300 * Second

\* a visual detector that also takes the interval result when it is no
\* longer than the threshold result
detectVisualScenes_ReplacesOnEqual(primary, secondary, dur) ==
    LET first == IF primary.ok THEN detectScenesByThreshold(primary.out, dur) ELSE << >>
    IN  IF Len(first) < 5 /\ dur > 300 * Second
        THEN IF secondary.ok /\ Len(detectScenesByInterval(secondary.out, dur)) >= Len(first)
             THEN detectScenesByInterval(secondary.out, dur)
             ELSE first
        ELSE first

\* detectVisualScenes: primary and secondary are the two tool runs (the
\* secondary one is only looked at when RunsInterval holds)
detectVisualScenes(primary, secondary, dur) ==
    LET first == IF primary.ok THEN detectScenesByThreshold(primary.out, dur) ELSE << >>
    IN  IF Len(first) < 5 /\ dur > 300 * Second
        THEN IF secondary.ok /\ Len(detectScenesByInterval(secondary.out, dur)) > Len(first)
             THEN detectScenesByInterval(secondary.out, dur)
             ELSE first
        ELSE first

\* no silence_duration field on the line
NoLength == 0 - 1

\* detectSilence: raw = events [ts, len]; len = NoLength or the silence
\* length in timestamp units; silenceDuration / 5.0 in score units is 2 * len
detectSilence(raw, baseScore) ==
    [k \in 1 .. Len(raw) |->
        Scene(raw[k].ts,
              IF raw[k].len = NoLength THEN baseScore
              ELSE Min(90, baseScore + 2 * raw[k].len))]

\* detectSpeechPauses: one point every 90 s, away from both ends
RECURSIVE SpeechPoints(_, _, _)
SpeechPoints(i, pointCount, dur) ==
    IF i > pointCount THEN << >>
    ELSE LET timestamp == i * 90 * Second
         IN  (IF timestamp > 30 * Second /\ timestamp < dur - 30 * Second
              THEN <<Scene(timestamp, 40)>> ELSE << >>)
             \o SpeechPoints(i + 1, pointCount, dur)

detectSpeechPauses(dur) == SpeechPoints(1, dur \div (90 * Second), dur)

\* an audio detector that, when the first pass fails, still hands back what
\* the second pass found
detectAudioScenes_KeepsSecondPass(pass1, pass2, speechOk, dur) ==
    IF ~pass1.ok
    THEN [err |-> TRUE,
          list |-> IF pass2.ok THEN detectSilence(pass2.out, 75) ELSE << >>]
    ELSE IF ~pass2.ok THEN [err |-> FALSE, list |-> detectSilence(pass1.out, 50)]
    ELSE LET sorted == SortByTimestamp(detectSilence(pass1.out, 50)
                                       \o detectSilence(pass2.out, 75))
         IN  [err |-> FALSE,
              list |-> IF speechOk THEN sorted \o detectSpeechPauses(dur) ELSE sorted]

\* detectAudioScenes: [err, list]; pass1 and pass2 are the two silence
\* runs, speechOk tells whether the volumedetect run succeeded
detectAudioScenes(pass1, pass2, speechOk, dur) ==
    IF ~pass1.ok THEN [err |-> TRUE, list |-> << >>]
    ELSE IF ~pass2.ok THEN [err |-> FALSE, list |-> detectSilence(pass1.out, 50)]
    ELSE LET sorted == SortByTimestamp(detectSilence(pass1.out, 50)
                                       \o detectSilence(pass2.out, 75))
         IN  [err |-> FALSE,
              list |-> IF speechOk THEN sorted \o detectSpeechPauses(dur) ELSE sorted]

(* --------------------------- the environment --------------------------- *)

\* what ffprobe can report: 2 min, 3.5 min, 10 min 50 s
Durations == {120 * Second, 210 * Second, 650 * Second}

\* the ascending list of a finite set of records with distinct ts
RECURSIVE AscendingSeq(_)
AscendingSeq(S) ==
    IF S = {} THEN << >>
    ELSE LET m == CHOOSE x \in S : \A y \in S : x.ts <= y.ts
         IN  <<m>> \o AscendingSeq(S \ {m})

AscendingLists(pool, n) ==
    {AscendingSeq(S) : S \in {T \in SUBSET pool : Cardinality(T) <= n}}

\* events the frame-difference filter may print for a video of length dur
VisualPool(dur) ==
    {Scene(0, 30), Scene(5, 60), Scene(300, 50), Scene(350, 90), Scene(1000, 70),
     Scene(dur - 2 * Second, 80)}

\* the five events of the 650 s example
Example650 ==
    <<Scene(452, 60), Scene(1300, 50), Scene(1310, 90), Scene(3105, 70), Scene(6020, 40)>>

ThresholdRuns(dur) ==
    {ToolFailed}
    \cup {ToolPrinted(l) : l \in AscendingLists(VisualPool(dur), MaxVisual)}
    \cup (IF dur = 650 * Second THEN {ToolPrinted(Example650)} ELSE {})

\* the interval select prints one frame every 30 s, from frame 0
IntervalRuns(dur) ==
    {ToolFailed,
     ToolPrinted([k \in 1 .. (dur \div (30 * Second)) + 1 |-> (k - 1) * 30 * Second])}

\* silence_end events a pass may print: at 0, inside, and at the very end
SilencePool(dur) ==
    {[ts |-> 0, len |-> NoLength], [ts |-> 350, len |-> 10],
     [ts |-> 900, len |-> NoLength], [ts |-> dur, len |-> 5]}

SilenceRuns(dur) ==
    {ToolFailed} \cup {ToolPrinted(l) : l \in AscendingLists(SilencePool(dur), MaxSilence)}

(* ----------------------------- DetectScenes ---------------------------- *)

\* combineScenes is not in its loop; no UpdateVideoChapters call
NoScan == [all |-> << >>, i |-> 0, last |-> 0]
NoVideo == [original |-> << >>, chapters |-> << >>, preserve |-> FALSE,
            description |-> << >>, err |-> "none"]

\* detectVisualScenes has run no tool
NoTools == [primary |-> ToolFailed, secondary |-> ToolFailed, ranInterval |-> FALSE]

\* the web server as it starts: var chapters []Chapter is nil (array 0), no
\* array allocated, no request in flight, nothing served yet
NoWeb ==
    [chapters |-> 0,
     heap |-> << >>,
     installed |-> {<< >>},
     detect |-> [at |-> "idle", arr |-> 0, i |-> 0],
     get |-> [at |-> "idle", arr |-> 0, k |-> 0, out |-> << >>],
     served |-> << >>]

Init ==
    /\ pc = "lookpath"
    /\ sd \in [MinGap : {0, 10 * Second}, MinDuration : {0, 5 * Second},
               MaxScenes : 0 .. MaxScenesBound]
    /\ ffmpegFound = TRUE
    /\ probeOk = TRUE
    /\ duration = 0
    /\ visualScenes = << >>
    /\ audioScenes = << >>
    /\ audioErr = FALSE
    /\ allScenes = << >>
    /\ scenes = << >>
    /\ outcome = "running"
    /\ zeroSynth = FALSE
    /\ fallbackUsed = FALSE
    /\ filterSelected = FALSE
    /\ ceilingSelected = FALSE
    /\ scan = NoScan
    /\ yt = NoVideo
    /\ tools = NoTools
    /\ web = NoWeb

\* exec.LookPath("ffmpeg")
LookPath ==
    /\ pc = "lookpath"
    /\ \E found \in BOOLEAN :
         /\ ffmpegFound' = found
         /\ IF found THEN pc' = "probe" /\ outcome' = outcome
            ELSE pc' = "done" /\ outcome' = "error"
    /\ UNCHANGED <<scan, yt, sd, tools, web, probeOk, duration, visualScenes, audioScenes, audioErr,
                   allScenes, scenes, zeroSynth, fallbackUsed, filterSelected,
                   ceilingSelected>>

\* getVideoDuration
Probe ==
    /\ pc = "probe"
    /\ \/ probeOk' = FALSE /\ pc' = "done" /\ outcome' = "error" /\ duration' = duration
       \/ \E d \in Durations :
            probeOk' = TRUE /\ duration' = d /\ pc' = "visual" /\ outcome' = outcome
    /\ UNCHANGED <<scan, yt, sd, tools, web, ffmpegFound, visualScenes, audioScenes, audioErr,
                   allScenes, scenes, zeroSynth, fallbackUsed, filterSelected,
                   ceilingSelected>>

DetectVisual ==
    /\ pc = "visual"
    /\ \E primary \in ThresholdRuns(duration) :
         \E secondary \in (IF RunsInterval(primary, duration)
                           THEN IntervalRuns(duration) ELSE {ToolFailed}) :
            visualScenes' = detectVisualScenes(primary, secondary, duration)
    /\ pc' = "audio"
    /\ UNCHANGED <<scan, yt, sd, tools, web, ffmpegFound, probeOk, duration, audioScenes, audioErr,
                   allScenes, scenes, outcome, zeroSynth, fallbackUsed,
                   filterSelected, ceilingSelected>>

DetectAudio ==
    /\ pc = "audio"
    /\ \E pass1 \in SilenceRuns(duration), pass2 \in SilenceRuns(duration),
          speechOk \in BOOLEAN :
         LET r == detectAudioScenes(pass1, pass2, speechOk, duration)
         IN  audioScenes' = r.list /\ audioErr' = r.err
    /\ pc' = "merge"
    /\ UNCHANGED <<scan, yt, sd, tools, web, ffmpegFound, probeOk, duration, visualScenes,
                   allScenes, scenes, outcome, zeroSynth, fallbackUsed,
                   filterSelected, ceilingSelected>>

Merge ==
    /\ pc = "merge"
    /\ allScenes' = combineScenes(visualScenes, audioScenes, sd.MinGap)
    /\ pc' = "filter"
    /\ UNCHANGED <<scan, yt, sd, tools, web, ffmpegFound, probeOk, duration, visualScenes, audioScenes,
                   audioErr, scenes, outcome, zeroSynth, fallbackUsed,
                   filterSelected, ceilingSelected>>

\* whether intelligentFiltering hands its filtered list to the selector
FilterSelects(list, dur, minDuration) ==
    Len(SelectSeq(list, LAMBDA sc : sc.ts >= minDuration)) > idealCount(dur) * 2

FilterSelect ==
    /\ pc = "filter"
    /\ LET r == intelligentFiltering(allScenes, duration, sd.MinDuration)
       IN  IF r.ok
           THEN /\ scenes' = r.list
                /\ filterSelected' = FilterSelects(allScenes, duration, sd.MinDuration)
                /\ pc' = "emptyfallback"
                /\ outcome' = outcome
           ELSE /\ pc' = "done"
                /\ outcome' = "panic"
                /\ UNCHANGED <<scenes, filterSelected>>
    /\ UNCHANGED <<scan, yt, sd, tools, web, ffmpegFound, probeOk, duration, visualScenes, audioScenes,
                   audioErr, allScenes, zeroSynth, fallbackUsed, ceilingSelected>>

\* every list createFallbackChapters can return for a duration
FallbackLists(dur) ==
    {createFallbackChapters(dur, draws) : draws \in FallbackDraws(dur)}

\* an empty-list fallback for videos longer than 3 minutes only
EmptyFallback_OnlyLongVideos ==
    /\ pc = "emptyfallback"
    /\ IF Len(scenes) = 0 /\ duration > 180 * Second
       THEN /\ scenes' \in FallbackLists(duration)
            /\ fallbackUsed' = TRUE
            /\ zeroSynth' = TRUE
       ELSE UNCHANGED <<scenes, fallbackUsed, zeroSynth>>
    /\ pc' = "zerochapter"
    /\ UNCHANGED <<scan, yt, sd, tools, web, ffmpegFound, probeOk, duration, visualScenes,
                   audioScenes, audioErr, allScenes, outcome, filterSelected,
                   ceilingSelected>>

\* an empty-list fallback that hands its list straight to the ceiling
EmptyFallback_SkipsZeroChapter ==
    /\ pc = "emptyfallback"
    /\ IF Len(scenes) = 0
       THEN /\ scenes' \in FallbackLists(duration)
            /\ fallbackUsed' = TRUE
            /\ zeroSynth' = TRUE
       ELSE UNCHANGED <<scenes, fallbackUsed, zeroSynth>>
    /\ pc' = "ceiling"
    /\ UNCHANGED <<scan, yt, sd, tools, web, ffmpegFound, probeOk, duration, visualScenes, audioScenes,
                   audioErr, allScenes, outcome, filterSelected, ceilingSelected>>

\* if len(scenes) == 0 { scenes = createFallbackChapters(duration) }
EmptyFallback ==
    /\ pc = "emptyfallback"
    /\ IF Len(scenes) = 0
       THEN /\ scenes' \in FallbackLists(duration)
            /\ fallbackUsed' = TRUE
            /\ zeroSynth' = TRUE
       ELSE UNCHANGED <<scenes, fallbackUsed, zeroSynth>>
    /\ pc' = "zerochapter"
    /\ UNCHANGED <<scan, yt, sd, tools, web, ffmpegFound, probeOk, duration, visualScenes, audioScenes,
                   audioErr, allScenes, outcome, filterSelected, ceilingSelected>>

hasZeroChapter(list) == \E k \in 1 .. Len(list) : list[k].ts < Second

\* a zero-chapter step that prepends whatever the list holds
WithZeroChapter_Always(list) == <<Scene(0, ScoreOne)>> \o list

\* the list after the zero-chapter step
WithZeroChapter(list) ==
    IF ~hasZeroChapter(list) /\ Len(list) > 0
    THEN <<Scene(0, ScoreOne)>> \o list
    ELSE list

ZeroChapterCheck ==
    /\ pc = "zerochapter"
    /\ scenes' = WithZeroChapter(scenes)
    /\ zeroSynth' = (zeroSynth \/ (~hasZeroChapter(scenes) /\ Len(scenes) > 0))
    /\ pc' = "ceiling"
    /\ UNCHANGED <<scan, yt, sd, tools, web, ffmpegFound, probeOk, duration, visualScenes, audioScenes,
                   audioErr, allScenes, outcome, fallbackUsed, filterSelected,
                   ceilingSelected>>

\* if sd.MaxScenes > 0 && len(scenes) > sd.MaxScenes
CeilingApplies(list, maxScenes) == maxScenes > 0 /\ Len(list) > maxScenes

\* the list after the ceiling step, or the panic of the selector
WithCeiling(list, maxScenes, dur) ==
    IF CeilingApplies(list, maxScenes)
    THEN selectRepresentativeScenes(list, maxScenes, dur)
    ELSE Returned(list)

CountCeiling ==
    /\ pc = "ceiling"
    /\ LET r == WithCeiling(scenes, sd.MaxScenes, duration)
       IN  IF r.ok
           THEN /\ scenes' = r.list
                /\ ceilingSelected' = CeilingApplies(scenes, sd.MaxScenes)
                /\ pc' = "mincount"
                /\ outcome' = outcome
           ELSE /\ pc' = "done"
                /\ outcome' = "panic"
                /\ UNCHANGED <<scenes, ceilingSelected>>
    /\ UNCHANGED <<scan, yt, sd, tools, web, ffmpegFound, probeOk, duration, visualScenes, audioScenes,
                   audioErr, allScenes, zeroSynth, fallbackUsed, filterSelected>>

\* a minimum-count check that takes "longer than 5 minutes" for its limit
MinimumApplies_FiveMinutes(list, dur) == Len(list) < 3 /\ dur > 300 * Second

\* if len(scenes) < 3 && duration > 180
MinimumApplies(list, dur) == Len(list) < 3 /\ dur > 180 * Second

\* a minimum-count step that adds the fallback chapters to the detected ones
MinimumCount_Supplements ==
    /\ pc = "mincount"
    /\ IF MinimumApplies(scenes, duration)
       THEN /\ scenes' \in {SortByTimestamp(scenes \o fb) : fb \in FallbackLists(duration)}
            /\ fallbackUsed' = TRUE
            /\ zeroSynth' = TRUE
       ELSE UNCHANGED <<scenes, fallbackUsed, zeroSynth>>
    /\ pc' = "done"
    /\ outcome' = "ok"
    /\ UNCHANGED <<scan, yt, sd, tools, web, ffmpegFound, probeOk, duration, visualScenes, audioScenes,
                   audioErr, allScenes, filterSelected, ceilingSelected>>

MinimumCount ==
    /\ pc = "mincount"
    /\ IF MinimumApplies(scenes, duration)
       THEN /\ scenes' \in FallbackLists(duration)
            /\ fallbackUsed' = TRUE
            /\ zeroSynth' = TRUE
       ELSE UNCHANGED <<scenes, fallbackUsed, zeroSynth>>
    /\ pc' = "done"
    /\ outcome' = "ok"
    /\ UNCHANGED <<scan, yt, sd, tools, web, ffmpegFound, probeOk, duration, visualScenes, audioScenes,
                   audioErr, allScenes, filterSelected, ceilingSelected>>

Next ==
    \/ LookPath
    \/ Probe
    \/ DetectVisual
    \/ DetectAudio
    \/ Merge
    \/ FilterSelect
    \/ EmptyFallback
    \/ ZeroChapterCheck
    \/ CountCeiling
    \/ MinimumCount

Spec == Init /\ [][Next]_vars

(* DetectScenes as a function of what the detectors returned: the set of   *)
(* lists it can return, over the jitter draws of the fallback (empty when  *)
(* the run panics).                                                        *)

\* lines 150-176, from the list the zero-chapter step receives
AfterFilter(list, cfg, dur) ==
    LET r == WithCeiling(WithZeroChapter(list), cfg.MaxScenes, dur)
    IN  IF ~r.ok THEN {}
        ELSE IF MinimumApplies(r.list, dur) THEN FallbackLists(dur)
        ELSE {r.list}

\* lines 138-176
DetectScenesResults(visual, audio, cfg, dur) ==
    LET r == intelligentFiltering(combineScenes(visual, audio, cfg.MinGap),
                                  dur, cfg.MinDuration)
    IN  IF ~r.ok THEN {}
        ELSE IF Len(r.list) = 0
        THEN UNION {AfterFilter(fb, cfg, dur) : fb \in FallbackLists(dur)}
        ELSE AfterFilter(r.list, cfg, dur)

(* ------------------------------- claims -------------------------------- *)

\* DetectScenes has returned (scenes, nil)
ReturnedList == pc = "done" /\ outcome = "ok"

Timestamps(list) == [k \in 1 .. Len(list) |-> list[k].ts]

\* C1: every returned list is strictly ascending by timestamp, so it holds
\* no two entries with the same timestamp.
C1_StrictlyAscending ==
    ReturnedList => \A k \in 1 .. Len(scenes) - 1 : scenes[k].ts < scenes[k + 1].ts

\* C2: with maxScenes = N > 0 every returned list has at most N entries.
C2_AtMostMaxScenes ==
    (ReturnedList /\ sd.MaxScenes > 0) => Len(scenes) <= sd.MaxScenes

\* C3: in every returned list adjacent entries are at least minGap apart,
\* except entries 0 and 1 when entry 0 is the synthesized zero-chapter.
C3_MinGapKept ==
    ReturnedList =>
        \A k \in 1 .. Len(scenes) - 1 :
            \/ scenes[k + 1].ts - scenes[k].ts >= sd.MinGap
            \/ k = 1 /\ zeroSynth

\* the run of the 650 s example: its configuration and detector outputs
IsExample650 ==
    /\ duration = 650 * Second
    /\ sd = [MinGap |-> 10 * Second, MinDuration |-> 0, MaxScenes |-> 0]
    /\ visualScenes = Example650
    /\ audioScenes = << >>

\* C4: in the 650 s example the merge step yields [45.2, 131.0, 310.5,
\* 602.0], the selector is skipped, a zero-chapter is prepended and the
\* final list is exactly [0, 45.2, 131.0, 310.5, 602.0], without fallback.
C4_Example650 ==
    (ReturnedList /\ IsExample650) =>
        /\ Timestamps(allScenes) = <<452, 1310, 3105, 6020>>
        /\ ~filterSelected /\ ~ceilingSelected
        /\ zeroSynth
        /\ Timestamps(scenes) = <<0, 452, 1310, 3105, 6020>>
        /\ ~fallbackUsed

\* C5: the first entry of every non-empty returned list is below 1.0 s.
C5_FirstBelowOneSecond ==
    (ReturnedList /\ Len(scenes) > 0) => scenes[1].ts < Second

\* a run whose zero-chapter was prepended, whose list the ceiling then cut
\* with the selector, and which returned that cut list
C5_Witness ==
    /\ ReturnedList
    /\ zeroSynth /\ ceilingSelected /\ ~fallbackUsed
    /\ Len(scenes) > 1
    /\ scenes[1] = Scene(0, ScoreOne)

\* C6: every timestamp of a returned list lies in [0, duration).
C6_WithinDuration ==
    ReturnedList =>
        \A k \in 1 .. Len(scenes) : scenes[k].ts >= 0 /\ scenes[k].ts < duration

C8_AllEmptyFallback ==
    (pc = "done" /\ ffmpegFound /\ probeOk /\ duration > 180 * Second
        /\ visualScenes = << >> /\ audioScenes = << >>) =>
        /\ outcome = "ok"
        /\ Len(scenes) >= 3
        /\ scenes[1].ts = 0

\* C9: DetectScenes ends in an error only when ffmpeg is missing or the
\* duration probe fails; in every other run, whatever detectors failed, it
\* returns a chapter list.
C9_FatalOnlyAtSetup ==
    pc = "done" =>
        /\ outcome = "error" => (~ffmpegFound \/ ~probeOk)
        /\ (ffmpegFound /\ probeOk) => outcome = "ok"

\* C10: when the audio detector fails, the list handed to Filter/Select is
\* exactly the visual detector's list, and the list returned is one the
\* same run returns with an empty audio list.
C10_AudioFailureVisualOnly ==
    /\ (audioErr /\ pc \notin {"lookpath", "probe", "visual", "audio", "merge"})
          => allScenes = visualScenes
    /\ (audioErr /\ ReturnedList)
          => scenes \in DetectScenesResults(visualScenes, << >>, sd, duration)

\* the audio detector failed on a video with several visual candidates,
\* and the run returned a list made of them
C10_Witness ==
    /\ ReturnedList
    /\ audioErr
    /\ Len(visualScenes) > 1
    /\ allScenes = visualScenes
    /\ ~fallbackUsed

(* ------------------- createFallbackChapters on its own ------------------ *)

\* durations of every count bucket, a short video included
FallbackDurations ==
    {30 * Second, 120 * Second, 210 * Second, 300 * Second, 650 * Second,
     960 * Second, 2200 * Second}

\* every variable the call does not touch
IdleRun ==
    /\ sd = [MinGap |-> 0, MinDuration |-> 0, MaxScenes |-> 0]
    /\ ffmpegFound = TRUE
    /\ probeOk = TRUE
    /\ audioErr = FALSE
    /\ outcome = "running"
    /\ zeroSynth = FALSE
    /\ fallbackUsed = FALSE
    /\ filterSelected = FALSE
    /\ ceilingSelected = FALSE

InitFallback ==
    /\ pc = "fallback.call"
    /\ duration \in FallbackDurations
    /\ visualScenes = << >>
    /\ audioScenes = << >>
    /\ allScenes = << >>
    /\ scenes = << >>
    /\ scan = NoScan
    /\ yt = NoVideo
    /\ tools = NoTools
    /\ web = NoWeb
    /\ IdleRun

FallbackCall ==
    /\ pc = "fallback.call"
    /\ scenes' \in FallbackLists(duration)
    /\ pc' = "fallback.done"
    /\ UNCHANGED <<scan, yt, sd, tools, web, ffmpegFound, probeOk, duration, visualScenes,
                   audioScenes, audioErr, allScenes, outcome, zeroSynth,
                   fallbackUsed, filterSelected, ceilingSelected>>

NextFallback == FallbackCall

SpecFallback == InitFallback /\ [][NextFallback]_vars

\* chapter k (from 1) is within a tenth of the segment width of its even
\* position (k - 1) * duration / count
NearEvenPosition(list, k, dur) ==
    Abs(list[k].ts * Len(list) - (k - 1) * dur) * 10 <= dur

\* C12 as stated: every non-zero fallback chapter is within 10% of the
\* segment width of its even position and strictly inside (0, duration - 10 s).
C12_JitterWithinTenSecondsOfEnd ==
    pc = "fallback.done" =>
        \A k \in 2 .. Len(scenes) :
            /\ NearEvenPosition(scenes, k, duration)
            /\ scenes[k].ts > 0
            /\ scenes[k].ts < duration - 10 * Second

\* C12 amended: every non-zero fallback chapter is within 10% of the segment
\* width of its even position and strictly inside (0, duration).
C12_JitterWithinDuration ==
    pc = "fallback.done" =>
        \A k \in 2 .. Len(scenes) :
            /\ NearEvenPosition(scenes, k, duration)
            /\ scenes[k].ts > 0
            /\ scenes[k].ts < duration

\* a 30 s video whose last chapter was jittered into the last 10 seconds
C12_Witness ==
    /\ pc = "fallback.done"
    /\ duration = 30 * Second
    /\ Len(scenes) = 3
    /\ scenes[3].ts > duration - 10 * Second
    /\ scenes[3].ts < duration

(* ------------------ UpdateVideoChapters (package youtube) -------------- *)
(* A string is the sequence of its characters.                             *)

NL == "\n"

\* strings.Index(s, pat): the first index (from 0) at which pat occurs, or -1
IndexOf(s, pat) ==
    LET hits == {k \in 0 .. Len(s) - Len(pat) : SubSeq(s, k + 1, k + Len(pat)) = pat}
    IN  IF hits = {} THEN 0 - 1 ELSE CHOOSE k \in hits : \A h \in hits : k <= h

\* strings.HasSuffix
HasSuffix(s, suffix) ==
    Len(suffix) <= Len(s) /\ SubSeq(s, Len(s) - Len(suffix) + 1, Len(s)) = suffix

\* for i := chapterStartIndex; i >= 0; i-- { if i == 0 || desc[i-1] == '\n' ... }
RECURSIVE LineStart(_, _)
LineStart(desc, i) ==
    IF i = 0 \/ desc[i] = NL THEN i ELSE LineStart(desc, i - 1)

DigitChars == <<"0", "1", "2", "3", "4", "5", "6", "7", "8", "9">>

\* %d
RECURSIVE Decimal(_)
Decimal(n) ==
    IF n < 10 THEN <<DigitChars[n + 1]>>
    ELSE Decimal(n \div 10) \o <<DigitChars[(n % 10) + 1]>>

\* %02d
Decimal2(n) == IF n < 10 THEN <<"0">> \o Decimal(n) ELSE Decimal(n)

\* the time of a chapter line; Time is in tenths of a second
TimeStr(time) ==
    LET totalSeconds == time \div Second
        hours == totalSeconds \div 3600
        minutes == (totalSeconds % 3600) \div 60
        seconds == totalSeconds % 60
    IN  IF hours > 0
        THEN Decimal(hours) \o <<":">> \o Decimal2(minutes) \o <<":">> \o Decimal2(seconds)
        ELSE Decimal(minutes) \o <<":">> \o Decimal2(seconds)

RECURSIVE ChapterLines(_, _)
ChapterLines(chapters, k) ==
    IF k > Len(chapters) THEN << >>
    ELSE TimeStr(chapters[k].Time) \o <<" ">> \o chapters[k].Title \o <<NL>>
         \o ChapterLines(chapters, k + 1)

ChaptersHeader == <<"C", "h", "a", "p", "t", "e", "r", "s", ":", NL>>
IntroductionLine ==
    <<"0", ":", "0", "0", " ", "I", "n", "t", "r", "o", "d", "u", "c", "t", "i", "o", "n", NL>>

formatChapters(chapters) ==
    IF Len(chapters) = 0 THEN << >>
    ELSE LET hasZero == \E k \in 1 .. Len(chapters) : chapters[k].Time = 0
         IN  ChaptersHeader
             \o (IF hasZero THEN << >> ELSE IntroductionLine)
             \o ChapterLines(chapters, 1)

\* "0:00 "
ChapterMark == <<"0", ":", "0", "0", " ">>

\* the index UpdateVideoChapters takes for the start of an existing list
chapterStartIndex(existingDesc) == IndexOf(existingDesc, ChapterMark)

\* newDescription of UpdateVideoChapters
NewDescription(originalDescription, chapterText, preserveDescription) ==
    IF preserveDescription
    THEN IF chapterStartIndex(originalDescription) # 0 - 1
         THEN SubSeq(originalDescription, 1,
                     LineStart(originalDescription, chapterStartIndex(originalDescription)))
              \o chapterText
         ELSE IF originalDescription # << >> /\ ~HasSuffix(originalDescription, <<NL>>)
              THEN originalDescription \o <<NL, NL>> \o chapterText
              ELSE originalDescription \o <<NL>> \o chapterText
    ELSE chapterText

\* longest description, in pieces
MaxPieces == 4

\* what descriptions are made of: text, a line break, a digit, "0:00 "
Pieces == {<<"a">>, <<NL>>, <<"1">>, ChapterMark}

RECURSIVE DescriptionsOf(_)
DescriptionsOf(n) ==
    IF n = 0 THEN {<< >>}
    ELSE LET shorter == DescriptionsOf(n - 1)
         IN  shorter \cup {d \o p : d \in shorter, p \in Pieces}

ChapterLists ==
    {<< >>,
     <<[Time |-> 0, Title |-> <<"A">>]>>,
     <<[Time |-> 655, Title |-> <<"B">>]>>,
     <<[Time |-> 0, Title |-> <<"A">>], [Time |-> 36610, Title |-> <<"B">>]>>}

InitYoutube ==
    /\ pc = "youtube.list"
    /\ \E d \in DescriptionsOf(MaxPieces), c \in ChapterLists, p \in BOOLEAN :
         yt = [original |-> d, chapters |-> c, preserve |-> p,
               description |-> d, err |-> "none"]
    /\ duration = 0
    /\ visualScenes = << >>
    /\ audioScenes = << >>
    /\ allScenes = << >>
    /\ scenes = << >>
    /\ scan = NoScan
    /\ tools = NoTools
    /\ web = NoWeb
    /\ IdleRun

\* s.service.Videos.List(...).Do()
YoutubeList ==
    /\ pc = "youtube.list"
    /\ \/ pc' = "youtube.done" /\ yt' = [yt EXCEPT !.err = "failed to get video info"]
       \/ pc' = "youtube.done" /\ yt' = [yt EXCEPT !.err = "video not found"]
       \/ pc' = "youtube.update" /\ yt' = yt
    /\ UNCHANGED <<scan, sd, tools, web, ffmpegFound, probeOk, duration, visualScenes,
                   audioScenes, audioErr, allScenes, scenes, outcome, zeroSynth,
                   fallbackUsed, filterSelected, ceilingSelected>>

\* the new description and s.service.Videos.Update(...).Do()
YoutubeUpdate ==
    /\ pc = "youtube.update"
    /\ \/ yt' = [yt EXCEPT !.err = "failed to update video"]
       \/ yt' = [yt EXCEPT !.description =
                    NewDescription(yt.original, formatChapters(yt.chapters), yt.preserve)]
    /\ pc' = "youtube.done"
    /\ UNCHANGED <<scan, sd, tools, web, ffmpegFound, probeOk, duration, visualScenes,
                   audioScenes, audioErr, allScenes, scenes, outcome, zeroSynth,
                   fallbackUsed, filterSelected, ceilingSelected>>

NextYoutube == YoutubeList \/ YoutubeUpdate

SpecYoutube == InitYoutube /\ [][NextYoutube]_vars

\* some line of desc begins with pat
LineBeginsWith(desc, pat) ==
    \E k \in 0 .. Len(desc) - Len(pat) :
        /\ SubSeq(desc, k + 1, k + Len(pat)) = pat
        /\ (k = 0 \/ desc[k] = NL)

HasPrefix(s, prefix) == Len(prefix) <= Len(s) /\ SubSeq(s, 1, Len(prefix)) = prefix

\* C13: with preserveDescription, when no line of the original description
\* begins with "0:00 ", the new description is the whole original
\* description followed by the chapter text.
C13_DescriptionPreserved ==
    (pc = "youtube.done" /\ yt.err = "none" /\ yt.preserve
        /\ ~LineBeginsWith(yt.original, ChapterMark)) =>
        /\ HasPrefix(yt.description, yt.original)
        /\ HasSuffix(yt.description, formatChapters(yt.chapters))

(* ----------------------- combineScenes on its own ---------------------- *)
(* The call, one loop iteration per step; scenes is mergedScenes, scan     *)
(* holds the sorted concatenation, the loop index and lastTimestamp.       *)

\* longest visual list and longest audio list handed to combineScenes
MaxMerge == 2

MergeVisualPool == {Scene(0, 30), Scene(300, 50), Scene(350, 90), Scene(1000, 70)}
MergeAudioPool == {Scene(300, 80), Scene(340, 50), Scene(400, 90), Scene(2000, 60)}

\* --min-gap: none, the default 10 s, and 150 s
MinGaps == {0, 10 * Second, 150 * Second}

InitMerge ==
    /\ pc = "combine.call"
    /\ visualScenes \in AscendingLists(MergeVisualPool, MaxMerge)
    /\ audioScenes \in AscendingLists(MergeAudioPool, MaxMerge)
    /\ \E g \in MinGaps : sd = [MinGap |-> g, MinDuration |-> 0, MaxScenes |-> 0]
    /\ duration = 0
    /\ allScenes = << >>
    /\ scenes = << >>
    /\ scan = NoScan
    /\ yt = NoVideo
    /\ tools = NoTools
    /\ web = NoWeb
    /\ ffmpegFound = TRUE
    /\ probeOk = TRUE
    /\ audioErr = FALSE
    /\ outcome = "running"
    /\ zeroSynth = FALSE
    /\ fallbackUsed = FALSE
    /\ filterSelected = FALSE
    /\ ceilingSelected = FALSE

\* the empty-audio return, or the concatenation, the sort and the seed
CombineCall ==
    /\ pc = "combine.call"
    /\ IF Len(audioScenes) = 0
       THEN /\ scenes' = visualScenes
            /\ scan' = scan
            /\ pc' = "combine.done"
       ELSE /\ scenes' = << >>
            /\ scan' = [all |-> SortByTimestamp(visualScenes \o audioScenes),
                        i |-> 1, last |-> MergeSeed]
            /\ pc' = "combine.loop"
    /\ UNCHANGED <<yt, sd, tools, web, ffmpegFound, probeOk, duration, visualScenes, audioScenes,
                   audioErr, allScenes, outcome, zeroSynth, fallbackUsed,
                   filterSelected, ceilingSelected>>

\* one iteration of for _, scene := range allScenes
CombineIterate ==
    /\ pc = "combine.loop"
    /\ scan.i <= Len(scan.all)
    /\ LET st == MergeStep([merged |-> scenes, last |-> scan.last],
                           scan.all[scan.i], sd.MinGap)
       IN  /\ scenes' = st.merged
           /\ scan' = [scan EXCEPT !.i = scan.i + 1, !.last = st.last]
    /\ UNCHANGED <<pc, yt, sd, tools, web, ffmpegFound, probeOk, duration, visualScenes,
                   audioScenes, audioErr, allScenes, outcome, zeroSynth, fallbackUsed,
                   filterSelected, ceilingSelected>>

\* return mergedScenes
CombineReturn ==
    /\ pc = "combine.loop"
    /\ scan.i > Len(scan.all)
    /\ pc' = "combine.done"
    /\ UNCHANGED <<scan, yt, sd, tools, web, ffmpegFound, probeOk, duration, visualScenes,
                   audioScenes, audioErr, allScenes, scenes, outcome, zeroSynth,
                   fallbackUsed, filterSelected, ceilingSelected>>

NextMerge == CombineCall \/ CombineIterate \/ CombineReturn

SpecMerge == InitMerge /\ [][NextMerge]_vars

\* C14: for every visual list, every audio list (possibly empty) and every
\* minGap, combineScenes returns a list ascending by timestamp in which no
\* two entries are closer than minGap.
C14_MergedSortedAndSpaced ==
    pc = "combine.done" =>
        \A k \in 1 .. Len(scenes) - 1 :
            /\ scenes[k].ts <= scenes[k + 1].ts
            /\ scenes[k + 1].ts - scenes[k].ts >= sd.MinGap

\* C15: with a non-empty audio list the earliest candidate of the sorted
\* concatenation is accepted by the first iteration of the scan, for every
\* minGap.
C15_EarliestAccepted ==
    (pc = "combine.loop" /\ scan.i = 2) => scenes = <<scan.all[1]>>

\* the candidates combineScenes was given
InputCandidates ==
    {visualScenes[k] : k \in 1 .. Len(visualScenes)}
        \cup {audioScenes[k] : k \in 1 .. Len(audioScenes)}

\* what one iteration of the scan does with candidate c
ScanStepAsClaimed(c) ==
    /\ c.ts - scan.last >= sd.MinGap =>
          /\ scenes' = Append(scenes, c)
          /\ scan'.last = c.ts
    /\ (c.ts - scan.last < sd.MinGap /\ scenes # << >>) =>
          IF c.score > scenes[Len(scenes)].score
          THEN /\ scenes' = [scenes EXCEPT ![Len(scenes)] = c]
               /\ scan'.last = c.ts
          ELSE /\ scenes' = scenes
               /\ scan'.last = scan.last
    /\ Len(scenes') >= Len(scenes)
    /\ \A k \in 1 .. Len(scenes') : scenes'[k] \in InputCandidates

\* C16: in the merge scan a candidate at least minGap after the last accepted
\* timestamp is appended; a closer candidate replaces the last accepted one
\* if and only if its score is strictly higher, and later gaps are then
\* measured from its timestamp; the merged list never shrinks and holds only
\* input candidates.
C16_MergeScanStep ==
    [][(pc = "combine.loop" /\ scan'.i = scan.i + 1) =>
          ScanStepAsClaimed(scan.all[scan.i])]_vars

\* two candidates scanned at the default gap, the second one closer than
\* minGap to the first and now standing in its place
C16_Witness ==
    /\ pc = "combine.loop"
    /\ sd.MinGap = 10 * Second
    /\ scan.i = 3
    /\ scan.all[2].ts - scan.all[1].ts < sd.MinGap
    /\ scan.all[2].score > scan.all[1].score
    /\ scenes = <<scan.all[2]>>
    /\ scan.last = scan.all[2].ts

FilterDurations ==
    {2999, 300 * Second, 8999, 900 * Second, 17999, 1800 * Second, 3600 * Second}

\* n candidates spread over the video, the first one at `first`
CandidateList(n, dur, first, seed) ==
    [k \in 1 .. n |->
        Scene(first + (k - 1) * (dur \div (n + 1)),
              30 + ((k * 37 + seed * 11) % 7) * 10)]

\* list lengths around twice each ideal count: 2n, 2n + 1, 2n + 2 for
\* n = 3, 5, 8, 12
ListSizes == {6, 7, 8, 10, 11, 12, 16, 17, 18, 24, 25, 26}

\* lists starting at 0 s, 2 s or 7 s
CandidateLists(dur) ==
    {CandidateList(n, dur, first, seed) :
        n \in ListSizes, first \in {0, 2 * Second, 7 * Second}, seed \in 0 .. 1}

InitFilter ==
    /\ pc = "filter.call"
    /\ duration \in FilterDurations
    /\ allScenes \in CandidateLists(duration)
    /\ \E m \in {0, 5 * Second} : sd = [MinGap |-> 0, MinDuration |-> m, MaxScenes |-> 0]
    /\ visualScenes = << >>
    /\ audioScenes = << >>
    /\ scenes = << >>
    /\ scan = NoScan
    /\ yt = NoVideo
    /\ tools = NoTools
    /\ web = NoWeb
    /\ ffmpegFound = TRUE
    /\ probeOk = TRUE
    /\ audioErr = FALSE
    /\ outcome = "running"
    /\ zeroSynth = FALSE
    /\ fallbackUsed = FALSE
    /\ filterSelected = FALSE
    /\ ceilingSelected = FALSE

FilterCall ==
    /\ pc = "filter.call"
    /\ LET r == intelligentFiltering(allScenes, duration, sd.MinDuration)
       IN  /\ scenes' = r.list
           /\ outcome' = IF r.ok THEN outcome ELSE "panic"
    /\ pc' = "filter.done"
    /\ UNCHANGED <<scan, yt, sd, tools, web, ffmpegFound, probeOk, duration, visualScenes,
                   audioScenes, audioErr, allScenes, zeroSynth, fallbackUsed,
                   filterSelected, ceilingSelected>>

NextFilter == FilterCall

SpecFilter == InitFilter /\ [][NextFilter]_vars

\* the ideal count as the claim tabulates it
IdealAsClaimed(dur) ==
    CASE dur < 300 * Second -> 3
      [] dur >= 300 * Second /\ dur < 900 * Second -> 5
      [] dur >= 900 * Second /\ dur < 1800 * Second -> 8
      [] OTHER -> 10 + dur \div (1800 * Second)

\* C18: intelligentFiltering drops candidates before minDuration, takes
\* ideal = 3 / 5 / 8 / 10 + floor(duration/1800) by the length of the video,
\* returns the filtered list unchanged when it has at most 2*ideal entries
\* and otherwise the selector's output for target ideal, at most ideal
\* entries.
C18_FilterByIdealCount ==
    pc = "filter.done" =>
        LET filtered == SelectSeq(allScenes, LAMBDA sc : sc.ts >= sd.MinDuration)
            ideal == IdealAsClaimed(duration)
        IN  /\ outcome = "running"
            /\ IF Len(filtered) <= 2 * ideal
               THEN scenes = filtered
               ELSE /\ Returned(scenes) = selectRepresentativeScenes(filtered, ideal, duration)
                    /\ Len(scenes) <= ideal

\* a 15-minute video with more than 16 candidates after the minDuration
\* filter, cut down to at most 8
C18_Witness ==
    /\ pc = "filter.done"
    /\ duration = 900 * Second
    /\ sd.MinDuration = 5 * Second
    /\ allScenes[1].ts < sd.MinDuration
    /\ Len(allScenes) = 18
    /\ Len(scenes) <= 8
    /\ Len(scenes) > 0

(* ----------------- selectRepresentativeScenes on its own ---------------- *)
(* allScenes is the list handed in, sd.MaxScenes the desired count (the    *)
(* ceiling of DetectScenes passes it), scenes the list returned.           *)

\* longest list handed to the selector
MaxSelect == 4

\* candidates at 0 s and 0.5 s, two of equal score at equal distance from the
\* middle of [0 s, 60 s), a high score off the middle, and one at the very
\* end of the 120 s video
SelectPool ==
    {Scene(0, 30), Scene(5, 60), Scene(200, 50), Scene(400, 50), Scene(550, 90),
     Scene(700, 70), Scene(1200, 80)}

SelectDurations == {120 * Second, 210 * Second}

InitSelect ==
    /\ pc = "select.call"
    /\ duration \in SelectDurations
    /\ allScenes \in AscendingLists(SelectPool, MaxSelect)
    /\ \E n \in 1 .. 3 : sd = [MinGap |-> 0, MinDuration |-> 0, MaxScenes |-> n]
    /\ visualScenes = << >>
    /\ audioScenes = << >>
    /\ scenes = << >>
    /\ scan = NoScan
    /\ yt = NoVideo
    /\ tools = NoTools
    /\ web = NoWeb
    /\ ffmpegFound = TRUE
    /\ probeOk = TRUE
    /\ audioErr = FALSE
    /\ outcome = "running"
    /\ zeroSynth = FALSE
    /\ fallbackUsed = FALSE
    /\ filterSelected = FALSE
    /\ ceilingSelected = FALSE

SelectCall ==
    /\ pc = "select.call"
    /\ LET r == selectRepresentativeScenes(allScenes, sd.MaxScenes, duration)
       IN  /\ scenes' = r.list
           /\ outcome' = IF r.ok THEN outcome ELSE "panic"
    /\ pc' = "select.done"
    /\ UNCHANGED <<scan, yt, sd, tools, web, ffmpegFound, probeOk, duration, visualScenes,
                   audioScenes, audioErr, allScenes, zeroSynth, fallbackUsed,
                   filterSelected, ceilingSelected>>

NextSelect == SelectCall

SpecSelect == InitSelect /\ [][NextSelect]_vars

\* the call had more candidates than desired
SelectorCut == pc = "select.done" /\ Len(allScenes) > sd.MaxScenes

\* the first candidate is the fixed zero-chapter
ZeroKept == allScenes[1].ts < Second

\* the number of segments and the candidates spread over them
SegmentsUsed == IF ZeroKept THEN sd.MaxScenes - 1 ELSE sd.MaxScenes
Spread == IF ZeroKept THEN Tail(allScenes) ELSE allScenes
SpreadReturned == IF ZeroKept THEN Tail(scenes) ELSE scenes

\* C19: for an ascending list longer than desiredCount the selector returns
\* at most desiredCount entries, ascending, each an input candidate; the
\* first candidate is kept when it is before 1.0 s, and every other returned
\* entry comes from a segment of its own.
C19_SelectorShape ==
    SelectorCut =>
        /\ outcome = "running"
        /\ Len(scenes) <= sd.MaxScenes
        /\ \A k \in 1 .. Len(scenes) - 1 : scenes[k].ts <= scenes[k + 1].ts
        /\ \A k \in 1 .. Len(scenes) :
              \E j \in 1 .. Len(allScenes) : scenes[k] = allScenes[j]
        /\ ZeroKept => (Len(scenes) > 0 /\ scenes[1] = allScenes[1])
        /\ \A k \in 1 .. Len(SpreadReturned) :
              \E j \in 1 .. Len(Spread) : SpreadReturned[k] = Spread[j]
        /\ \A k, m \in 1 .. Len(SpreadReturned) :
              k # m => SegmentOf(SpreadReturned[k].ts, SegmentsUsed, duration)
                          # SegmentOf(SpreadReturned[m].ts, SegmentsUsed, duration)

\* the positions in Spread of the candidates of segment i
MembersAt(i) ==
    {j \in 1 .. Len(Spread) : SegmentOf(Spread[j].ts, SegmentsUsed, duration) = i}

\* candidate j has the highest combined score of segment i and is the
\* earliest to have it
BestOf(i, j) ==
    /\ j \in MembersAt(i)
    /\ \A q \in MembersAt(i) :
          LET cj == CombinedScore(Spread[j], i, SegmentsUsed, duration)
              cq == CombinedScore(Spread[q], i, SegmentsUsed, duration)
          IN  cq < cj \/ (cq = cj /\ j <= q)

\* C20: of each non-empty segment the selector returns the candidate with the
\* highest score * (1 - (|timestamp - midpoint| / width) / 2), the earliest
\* one when several have it, and no other candidate of that segment.
C20_BestOfEachSegment ==
    (SelectorCut /\ outcome = "running") =>
        \A i \in 0 .. SegmentsUsed - 1 :
            \A j \in MembersAt(i) :
                (\E k \in 1 .. Len(SpreadReturned) : SpreadReturned[k] = Spread[j])
                    <=> BestOf(i, j)

\* the 20 s and the 40 s candidate tie in the first of two segments of a
\* 120 s video; the 20 s one is returned
C20_Witness ==
    /\ SelectorCut
    /\ duration = 120 * Second
    /\ sd.MaxScenes = 2
    /\ allScenes = <<Scene(200, 50), Scene(400, 50), Scene(700, 70)>>
    /\ scenes = <<Scene(200, 50), Scene(700, 70)>>

(* ------------------------ the order of the stages ----------------------- *)

\* the stage of the orchestrator a position of DetectScenes belongs to
StageOf(p) ==
    CASE p \in {"lookpath", "probe"} -> 1
      [] p \in {"visual", "audio"} -> 2
      [] p = "merge" -> 3
      [] p \in {"filter", "emptyfallback"} -> 4
      [] p = "zerochapter" -> 5
      [] p = "ceiling" -> 6
      [] p = "mincount" -> 7
      [] p = "done" -> 8

\* C21: the stages run in the order Probe, Detect, Merge, Filter/Select,
\* ZeroChapterCheck, CountCeiling, MinimumCountEnforcement, Done (a run may
\* only leave the order by ending early); Merge starts when the audio
\* detector, which runs after the visual one, has ended; the ceiling starts
\* with the zero-chapter in place; and nothing changes the list after the
\* minimum-count step.
C21_StageOrder ==
    [][/\ StageOf(pc') \in {StageOf(pc), StageOf(pc) + 1}
          \/ (pc' = "done" /\ outcome' \in {"error", "panic"})
       /\ pc' = "merge" => pc = "audio"
       /\ pc' = "audio" => pc = "visual"
       /\ pc' = "ceiling" =>
             /\ pc = "zerochapter"
             /\ Len(scenes') > 0 => hasZeroChapter(scenes')
       /\ (pc' = "done" /\ outcome' = "ok") => pc = "mincount"
       /\ pc = "done" => scenes' = scenes]_vars

\* a run through every stage: the selector of Filter/Select was skipped, a
\* zero-chapter was prepended, the ceiling cut the list below 3 and the
\* minimum-count step replaced it
C21_Witness ==
    /\ ReturnedList
    /\ Len(allScenes) > 1
    /\ zeroSynth /\ ceilingSelected /\ fallbackUsed
    /\ sd.MaxScenes = 2
    /\ Len(scenes) >= 3

\* list is an output of createFallbackChapters(dur): the fixed first
\* chapter, then every chapter at one of its possible jittered places
IsFallbackOutput(list, dur) ==
    /\ Len(list) = chapterCount(dur)
    /\ list[1] = Scene(0, ScoreOne)
    /\ \A k \in 2 .. Len(list) :
          \E draw \in JitterDraws :
              list[k] = Scene(FallbackTimestamp(k - 1, dur, draw), 50)

\* C22: when the list that reaches the minimum-count step has fewer than 3
\* entries and the video is longer than 180 s, the list returned is exactly
\* one the fallback generator produces for that duration.
C22_FallbackReplaces ==
    [][(pc = "mincount" /\ Len(scenes) < 3 /\ duration > 180 * Second) =>
          /\ IsFallbackOutput(scenes', duration)
          /\ pc' = "done" /\ outcome' = "ok"]_vars

\* a returned fallback list of a 210 s video whose merge had a candidate
\* that is not in the returned list
C22_Witness ==
    /\ ReturnedList
    /\ duration = 210 * Second
    /\ fallbackUsed
    /\ IsFallbackOutput(scenes, duration)
    /\ \E k \in 1 .. Len(allScenes) :
          /\ allScenes[k].ts >= sd.MinDuration
          /\ \A j \in 1 .. Len(scenes) : scenes[j] # allScenes[k]

\* C23: the zero-chapter step prepends a candidate with timestamp 0 and
\* score 1.0 if and only if the list is non-empty and has no entry before
\* 1.0 s; otherwise it leaves the list unchanged; after it every non-empty
\* list has an entry before 1.0 s.
C23_ZeroChapterStep ==
    [][pc = "zerochapter" =>
          LET missing == /\ Len(scenes) > 0
                         /\ \A k \in 1 .. Len(scenes) : scenes[k].ts >= Second
          IN  /\ missing => scenes' = <<[ts |-> 0, score |-> ScoreOne]>> \o scenes
              /\ ~missing => scenes' = scenes
              /\ Len(scenes') > 0 => \E k \in 1 .. Len(scenes') : scenes'[k].ts < Second]_vars

\* the step has just prepended the zero-chapter to a detected list
C23_Witness ==
    /\ pc = "ceiling"
    /\ zeroSynth /\ ~fallbackUsed
    /\ Len(scenes) > 1
    /\ scenes[1] = Scene(0, ScoreOne)
    /\ scenes[2].ts >= Second
    /\ Tail(scenes) = allScenes

\* C24: for every duration createFallbackChapters returns as many entries
\* as the ideal count of intelligentFiltering for that duration.
C24_FallbackCountIsIdealCount ==
    pc = "fallback.done" => Len(scenes) = idealCount(duration)

\* the fallback of a video of 36 min 40 s: 11 chapters
C24_Witness ==
    /\ pc = "fallback.done"
    /\ duration = 2200 * Second
    /\ Len(scenes) = 11

\* C25: the list the audio detector returns is in ascending timestamp
\* order, whatever the silence passes and the speech-pause estimator found.
C25_AudioSorted ==
    pc = "merge" =>
        \A k \in 1 .. Len(audioScenes) - 1 : audioScenes[k].ts <= audioScenes[k + 1].ts

(* --------------------- detectVisualScenes on its own -------------------- *)
(* tools records what the two tool runs gave and whether the interval tool *)
(* was run; visualScenes is the list returned.                             *)

\* 3.5 min, exactly 5 min, just over 5 min, 10 min 50 s
VisualDurations == {210 * Second, 300 * Second, 310 * Second, 650 * Second}

\* the interval tool may also stop after the frames at 0 s and 60 s, or
\* after the one at 120 s
ShortIntervalRuns ==
    {ToolPrinted(<<0, 60 * Second>>), ToolPrinted(<<0, 60 * Second, 120 * Second>>)}

InitVisual ==
    /\ pc = "visual.call"
    /\ duration \in VisualDurations
    /\ visualScenes = << >>
    /\ audioScenes = << >>
    /\ allScenes = << >>
    /\ scenes = << >>
    /\ scan = NoScan
    /\ yt = NoVideo
    /\ tools = NoTools
    /\ web = NoWeb
    /\ IdleRun

VisualCall ==
    /\ pc = "visual.call"
    /\ \E primary \in ThresholdRuns(duration) :
         IF RunsInterval(primary, duration)
         THEN \E secondary \in IntervalRuns(duration) \cup ShortIntervalRuns :
                 /\ tools' = [primary |-> primary, secondary |-> secondary,
                              ranInterval |-> TRUE]
                 /\ visualScenes' = detectVisualScenes(primary, secondary, duration)
         ELSE /\ tools' = [primary |-> primary, secondary |-> ToolFailed,
                           ranInterval |-> FALSE]
              /\ visualScenes' = detectVisualScenes(primary, ToolFailed, duration)
    /\ pc' = "visual.done"
    /\ UNCHANGED <<scan, yt, sd, web, ffmpegFound, probeOk, duration, audioScenes,
                   audioErr, allScenes, scenes, outcome, zeroSynth, fallbackUsed,
                   filterSelected, ceilingSelected>>

NextVisual == VisualCall

SpecVisual == InitVisual /\ [][NextVisual]_vars

\* the events of the primary run that the threshold detector keeps
PrimaryKept ==
    IF tools.primary.ok
    THEN SelectSeq(tools.primary.out,
                   LAMBDA e : e.ts > 0 /\ e.ts < duration - 5 * Second)
    ELSE << >>

\* the candidates of the secondary run
SecondaryKept == detectScenesByInterval(tools.secondary.out, duration)

\* C26: the visual detector runs the interval detector only when the
\* primary one gave fewer than 5 events (or failed) and the video is longer
\* than 300 s, and returns the interval result only if that run succeeded
\* with strictly more candidates; in every other case it returns the primary
\* result, empty when the primary run failed.
C26_SecondaryOnlyWhenFew ==
    pc = "visual.done" =>
        /\ tools.ranInterval <=> (Len(PrimaryKept) < 5 /\ duration > 300 * Second)
        /\ visualScenes =
              IF /\ tools.ranInterval
                 /\ tools.secondary.ok
                 /\ Len(SecondaryKept) > Len(PrimaryKept)
              THEN SecondaryKept
              ELSE PrimaryKept

\* the interval run gave exactly as many candidates as the primary one, and
\* the primary result was returned
C26_Witness ==
    /\ pc = "visual.done"
    /\ tools.ranInterval
    /\ tools.secondary.ok
    /\ Len(PrimaryKept) > 0
    /\ Len(SecondaryKept) = Len(PrimaryKept)
    /\ visualScenes = PrimaryKept
    /\ visualScenes # SecondaryKept

\* C27: for every desiredCount >= 1 and every ascending list longer than
\* desiredCount, selectRepresentativeScenes indexes inside its segment array
\* and returns.
C27_SelectorReturns ==
    (pc = "select.done" /\ sd.MaxScenes >= 1 /\ Len(allScenes) > sd.MaxScenes) =>
        outcome # "panic"

(* ------------------ DetectScenes with a long minDuration ---------------- *)

\* --min-duration 60 with the default --min-gap; no ceiling, or one of 2 or 3
InitLongMinDuration ==
    /\ pc = "lookpath"
    /\ \E m \in {0, 2, 3} :
         sd = [MinGap |-> 10 * Second, MinDuration |-> 60 * Second, MaxScenes |-> m]
    /\ duration = 0
    /\ visualScenes = << >>
    /\ audioScenes = << >>
    /\ allScenes = << >>
    /\ scenes = << >>
    /\ scan = NoScan
    /\ yt = NoVideo
    /\ tools = NoTools
    /\ web = NoWeb
    /\ ffmpegFound = TRUE
    /\ probeOk = TRUE
    /\ audioErr = FALSE
    /\ outcome = "running"
    /\ zeroSynth = FALSE
    /\ fallbackUsed = FALSE
    /\ filterSelected = FALSE
    /\ ceilingSelected = FALSE

SpecLongMinDuration == InitLongMinDuration /\ [][Next]_vars

\* C28: every entry of a returned list, other than a zero-chapter at index
\* 0, has a timestamp of at least minDuration.
C28_MinDurationKept ==
    ReturnedList =>
        \A k \in 1 .. Len(scenes) :
            \/ scenes[k].ts >= sd.MinDuration
            \/ k = 1 /\ scenes[k].ts < Second

MaxArrays == 2

Chapter(t, title) == [Timestamp |-> t, Title |-> title]

\* the zero value make([]Chapter, n) fills the array with
ZeroChapter == Chapter(0, << >>)

\* fmt.Sprintf("Chapter %d", i+1), for the entry at position i from 1
ChapterTitle(i) == <<"C", "h", "a", "p", "t", "e", "r", " ">> \o Decimal(i)

\* the list handleDetect builds from scenes
ChaptersOf(list) == [k \in 1 .. Len(list) |-> Chapter(list[k].ts, ChapterTitle(k))]

\* lists DetectScenes returns to the handler
DetectResults ==
    {<<Scene(0, ScoreOne), Scene(400, 50)>>,
     <<Scene(0, ScoreOne), Scene(400, 50), Scene(800, 50)>>}

\* lists a client posts
PostLists ==
    {<<Chapter(0, <<"I", "n", "t", "r", "o">>)>>,
     <<Chapter(0, <<"I", "n", "t", "r", "o">>), Chapter(300, <<"T", "a", "l", "k">>)>>}

\* the elements of a slice
ArrayOf(id) == IF id = 0 THEN << >> ELSE web.heap[id]

InitWeb ==
    /\ pc = "web"
    /\ duration = 0
    /\ visualScenes = << >>
    /\ audioScenes = << >>
    /\ allScenes = << >>
    /\ scenes = << >>
    /\ scan = NoScan
    /\ yt = NoVideo
    /\ tools = NoTools
    /\ web = NoWeb
    /\ IdleRun

\* handleDetect up to chapters = make([]Chapter, len(scenes)); a request
\* whose DetectScenes fails returns without touching chapters
DetectMake ==
    /\ web.detect.at = "idle"
    /\ Len(web.heap) < MaxArrays
    /\ \E result \in DetectResults :
         /\ scenes' = result
         /\ web' = [web EXCEPT
                      !.heap = Append(@, [k \in 1 .. Len(result) |-> ZeroChapter]),
                      !.chapters = Len(web.heap) + 1,
                      !.installed = @ \cup {ChaptersOf(result)},
                      !.detect = [at |-> "fill", arr |-> Len(web.heap) + 1, i |-> 1]]
    /\ UNCHANGED <<pc, scan, yt, sd, tools, ffmpegFound, probeOk, duration, visualScenes,
                   audioScenes, audioErr, allScenes, outcome, zeroSynth, fallbackUsed,
                   filterSelected, ceilingSelected>>

\* one iteration of for i, scene := range scenes { chapters[i] = ... }: the
\* index expression reads the shared variable again
DetectFill ==
    /\ web.detect.at = "fill"
    /\ web.detect.i <= Len(scenes)
    /\ IF web.detect.i <= Len(ArrayOf(web.chapters))
       THEN web' = [web EXCEPT
                      !.heap[web.chapters][web.detect.i] =
                          Chapter(scenes[web.detect.i].ts, ChapterTitle(web.detect.i)),
                      !.detect.i = @ + 1]
       ELSE \* index out of range: the request's goroutine panics
            web' = [web EXCEPT !.detect.at = "panic"]
    /\ UNCHANGED <<pc, scan, yt, sd, tools, ffmpegFound, probeOk, duration, visualScenes,
                   audioScenes, audioErr, allScenes, scenes, outcome, zeroSynth,
                   fallbackUsed, filterSelected, ceilingSelected>>

\* the loop is over; the file is written and the response sent
DetectRespond ==
    /\ web.detect.at = "fill"
    /\ web.detect.i > Len(scenes)
    /\ web' = [web EXCEPT !.detect = [at |-> "idle", arr |-> 0, i |-> 0]]
    /\ UNCHANGED <<pc, scan, yt, sd, tools, ffmpegFound, probeOk, duration, visualScenes,
                   audioScenes, audioErr, allScenes, scenes, outcome, zeroSynth,
                   fallbackUsed, filterSelected, ceilingSelected>>

\* POST /api/chapters with a body that decodes: chapters = newChapters
PostChapters ==
    /\ Len(web.heap) < MaxArrays
    /\ \E newChapters \in PostLists :
         web' = [web EXCEPT
                   !.heap = Append(@, newChapters),
                   !.chapters = Len(web.heap) + 1,
                   !.installed = @ \cup {newChapters}]
    /\ UNCHANGED <<pc, scan, yt, sd, tools, ffmpegFound, probeOk, duration, visualScenes,
                   audioScenes, audioErr, allScenes, scenes, outcome, zeroSynth,
                   fallbackUsed, filterSelected, ceilingSelected>>

\* GET /api/chapters or GET /api/export: Encode(chapters) takes the slice
GetLoad ==
    /\ web.get.at = "idle"
    /\ web' = [web EXCEPT
                 !.get = [at |-> "encode", arr |-> web.chapters, k |-> 1, out |-> << >>]]
    /\ UNCHANGED <<pc, scan, yt, sd, tools, ffmpegFound, probeOk, duration, visualScenes,
                   audioScenes, audioErr, allScenes, scenes, outcome, zeroSynth,
                   fallbackUsed, filterSelected, ceilingSelected>>

\* the encoder reads the next element
GetEncode ==
    /\ web.get.at = "encode"
    /\ web.get.k <= Len(ArrayOf(web.get.arr))
    /\ web' = [web EXCEPT
                 !.get.out = Append(@, ArrayOf(web.get.arr)[web.get.k]),
                 !.get.k = @ + 1]
    /\ UNCHANGED <<pc, scan, yt, sd, tools, ffmpegFound, probeOk, duration, visualScenes,
                   audioScenes, audioErr, allScenes, scenes, outcome, zeroSynth,
                   fallbackUsed, filterSelected, ceilingSelected>>

\* the response is sent
GetRespond ==
    /\ web.get.at = "encode"
    /\ web.get.k > Len(ArrayOf(web.get.arr))
    /\ web' = [web EXCEPT
                 !.served = web.get.out,
                 !.get = [at |-> "idle", arr |-> 0, k |-> 0, out |-> << >>]]
    /\ UNCHANGED <<pc, scan, yt, sd, tools, ffmpegFound, probeOk, duration, visualScenes,
                   audioScenes, audioErr, allScenes, scenes, outcome, zeroSynth,
                   fallbackUsed, filterSelected, ceilingSelected>>

NextWeb ==
    \/ DetectMake
    \/ DetectFill
    \/ DetectRespond
    \/ PostChapters
    \/ GetLoad
    \/ GetEncode
    \/ GetRespond

SpecWeb == InitWeb /\ [][NextWeb]_vars

\* C30: whatever the interleaving of detect, POST and GET requests, the list
\* a GET answers with is, entry for entry, the complete list of one detect
\* run or of one accepted POST, or the initial empty list.
C30_GetSeesCompleteList ==
    web.served \in web.installed

====
